---- MODULE Spec2Model ----
(***************************************************************************)
(* State-machine model of the chigasaki-gourmet MCP server (src/server.py) *)
(* and of the result handling of its client (src/client.py).               *)
(*                                                                         *)
(* Python values are represented as follows.                               *)
(*   - None of a str-or-None slot is the string None; "" is the empty      *)
(*     string.                                                             *)
(*   - A query string is the sequence of its words; "" is <<>>; the        *)
(*     substring tests of server.py:136 are word-membership tests.         *)
(*   - Ratings are integers in tenths (4.0 is 40).                         *)
(*   - A JSON text is [valid, type, doc]: whether it parses, the JSON type *)
(*     of the value it encodes, and that value.                            *)
(***************************************************************************)
EXTENDS Integers, Sequences, FiniteSets, TLC

(* ------------------------------ bounds -------------------------------- *)
\* longest list of places the external API answers with
MaxPlaces == 2
\* invocations after which an environment without the variable is no longer read
MaxEnvReads == 2

(* --------------------------- Python values ---------------------------- *)
None == "None"
ApiKey == "AIza-key"
\* what os.getenv("MAPS_API_KEY") can return: unset, set but empty, set
EnvValues == {None, "", ApiKey}

\* `not x` for a str-or-None value
Falsy(x) == x = None \/ x = ""

(* -------------------------- tool arguments ---------------------------- *)
DefaultMinRating == 40
NoRating == -1
Ratings == {39, 40}
MinRatings == {0}
Queries == { <<>>, <<"ramen">>, <<"Chigasaki", "lunch">> }

\* arguments: a dict that may or may not hold "query" and "min_rating"
\* (an absent key carries the filler <<>> or 0, never read)
Arguments ==
    { [has_query |-> TRUE, query |-> q, has_min_rating |-> TRUE, min_rating |-> m] :
        q \in Queries, m \in MinRatings }
    \cup { [has_query |-> TRUE, query |-> q, has_min_rating |-> FALSE, min_rating |-> 0] :
        q \in Queries }
    \cup { [has_query |-> FALSE, query |-> <<>>, has_min_rating |-> TRUE, min_rating |-> m] :
        m \in MinRatings }
    \cup { [has_query |-> FALSE, query |-> <<>>, has_min_rating |-> FALSE, min_rating |-> 0] }

\* arguments.get("query", "")
GetQuery(arguments) == IF arguments.has_query THEN arguments.query ELSE <<>>
\* arguments.get("min_rating", 4.0)
GetMinRating(arguments) ==
    IF arguments.has_min_rating THEN arguments.min_rating ELSE DefaultMinRating

ToolNames == {"search_places", "get_place_details"}

\* the arguments a call of `name` is tried with
ArgumentsOf(name) ==
    IF name = "search_places" THEN Arguments
    ELSE { a \in Arguments : ~a.has_min_rating /\ a.query # <<"ramen">> }

(* ----------------------- external Places API -------------------------- *)
\* a place of the API's answer: its id and its rating (NoRating: no "rating" key)
Place(i, r) == [id |-> i, rating |-> r]

\* the lists of places of length n; the place at position i has id i
RECURSIVE PlaceLists(_)
PlaceLists(n) ==
    IF n = 0 THEN { <<>> }
    ELSE { Append(l, Place(n, r)) : l \in PlaceLists(n - 1), r \in Ratings \cup {NoRating} }

AllPlaceLists == UNION { PlaceLists(n) : n \in 0..MaxPlaces }

\* One answer of the external API to the POST of server.py:153.
\*   fault: "none", or the transport exception client.post raises
\*   status: the HTTP status (0 when there is no response)
\*   json: whether the body parses as JSON
\*   shape: the type of the JSON document ("object", "array", "number")
\*   places_shape: what the document holds under "places":
\*     "absent", "list" (of place objects, in `places`), "null", "number",
\*     "empty_object", "list_of_strings", "list_null_rating"
Answer(fault, status, json, shape, places_shape, places) ==
    [fault |-> fault, status |-> status, json |-> json, shape |-> shape,
     places_shape |-> places_shape, places |-> places]

ApiAnswers ==
    { Answer("none", 200, TRUE, "object", "list", l) : l \in AllPlaceLists }
    \cup { Answer("none", 200, TRUE, "object", s, <<>>) :
            s \in {"absent", "null", "number", "empty_object", "list_of_strings",
                   "list_null_rating"} }
    \cup { Answer("none", 200, TRUE, s, "absent", <<>>) : s \in {"array", "number"} }
    \cup { Answer("none", 200, FALSE, "none", "absent", <<>>) }
    \cup { Answer("none", s, TRUE, "object", "absent", <<>>) : s \in {403, 500} }
    \cup { Answer(f, 0, FALSE, "none", "absent", <<>>) : f \in {"ConnectError", "ReadTimeout"} }

(* ------------------------- handler's pieces --------------------------- *)
\* server.py:135-137: the locality is prepended unless the query mentions it
\* (the word "Chigasaki_kanji" stands for the locality's name in kanji)
search_query(query) ==
    IF (\E i \in 1..Len(query) : query[i] \in {"Chigasaki_kanji", "Chigasaki"})
    THEN query
    ELSE <<"Chigasaki_kanji">> \o query

\* place.get("rating", 0)
GetRating(place) == IF place.rating = NoRating THEN 0 ELSE place.rating

\* server.py:171-179 (the fields of place_info the model carries)
place_info(place) == [place_id |-> place.id, rating |-> GetRating(place)]

PassesFilterStrict(rating, min_rating) == rating > min_rating

\* server.py:164
PassesFilter(rating, min_rating) == rating >= min_rating

\* server.py:158-180: the loop over places_result["places"], from position i on
RECURSIVE FilterFrom(_, _, _, _)
FilterFrom(api_places, min_rating, i, places) ==
    IF i > Len(api_places) THEN places
    ELSE FilterFrom(api_places, min_rating, i + 1,
            IF PassesFilter(GetRating(api_places[i]), min_rating)
            THEN Append(places, place_info(api_places[i]))
            ELSE places)

\* json.dumps(v) of a dict v: a text that parses, to an object, the value v
json_dumps(v) == [valid |-> TRUE, type |-> "object", doc |-> v]

TextContent(text) == [type |-> "text", text |-> text]

\* what a handler hands back: a list of content items, or an exception raised
Returned(content) == [raised |-> FALSE, exc |-> "", msg |-> "", content |-> content]
Raised(exc, msg) == [raised |-> TRUE, exc |-> exc, msg |-> msg, content |-> <<>>]

\* the {"error": error_message} document of server.py:123, 199, 203
ErrorOutcome(kind, status, detail) ==
    [error |-> [kind |-> kind, status |-> status, detail |-> detail]]

\* server.py:183-192
SuccessOutcome(query, min_rating, places) ==
    [query |-> query, min_rating |-> min_rating, count |-> Len(places), places |-> places]

\* the exception the try block of server.py:131-194 raises on this answer, "" if none
TryException(answer) ==
    CASE answer.fault # "none" -> answer.fault                       \* client.post
      [] answer.status \notin 200..299 -> "HTTPStatusError"          \* raise_for_status
      [] ~answer.json -> "JSONDecodeError"                           \* response.json()
      [] answer.shape = "number" -> "TypeError"                      \* "places" in 5
      [] answer.shape = "array" -> ""                                \* "places" in []
      [] answer.places_shape \in {"null", "number"} -> "TypeError"   \* for place in None
      [] answer.places_shape = "list_of_strings" -> "AttributeError" \* "x".get
      [] answer.places_shape = "list_null_rating" -> "TypeError"     \* None >= 4.0
      [] OTHER -> ""

\* server.py:131-203: the text content the handler returns once the API answered
SearchResult(query, min_rating, answer) ==
    LET exc == TryException(answer) IN
    IF exc = "HTTPStatusError"
    THEN Returned(<< TextContent(json_dumps(
            ErrorOutcome("api_call_error", answer.status, "response_text"))) >>)
    ELSE IF exc # ""
    THEN Returned(<< TextContent(json_dumps(ErrorOutcome("search_error", 0, exc))) >>)
    ELSE Returned(<< TextContent(json_dumps(
            SuccessOutcome(query, min_rating,
                           FilterFrom(answer.places, min_rating, 1, <<>>)))) >>)

(* ------------------------------ state --------------------------------- *)
VARIABLES
    env,            \* the value of MAPS_API_KEY in the server's process environment
    api,            \* the answer the external Places API gives to every POST of the session
    MAPS_API_KEY,   \* server.py:37, the module-level credential slot
    envReads,       \* how many times os.getenv("MAPS_API_KEY") was evaluated
    request,        \* the request the server handled last
    result,         \* what its callback handed back
    http_post,      \* the POST the last callback sent to the external API, if any
    first,          \* the first search_places invocation of the session and its result
    client          \* the client process: where it is, its exit status, its report

vars == << env, api, MAPS_API_KEY, envReads, request, result, http_post, first, client >>
serverVars == << env, api, MAPS_API_KEY, envReads, request, result, http_post, first >>

NoArguments == [has_query |-> FALSE, query |-> <<>>, has_min_rating |-> FALSE, min_rating |-> 0]
NoRequest == [op |-> "none", name |-> "", arguments |-> NoArguments]
NoPost == [sent |-> FALSE, key |-> "", textQuery |-> <<>>]
Post(key, textQuery) == [sent |-> TRUE, key |-> key, textQuery |-> textQuery]
NoFirst == [seen |-> FALSE, arguments |-> NoArguments, result |-> Returned(<<>>)]

\* the client process once main is over: the result it got, its status, its report
Exit(call, code, printed) ==
    [pc |-> "exited", call |-> call, exit_code |-> code, printed |-> printed]

Init ==
    /\ env \in EnvValues
    /\ api \in ApiAnswers
    /\ MAPS_API_KEY = None
    /\ envReads = 0
    /\ request = NoRequest
    /\ result = Returned(<<>>)
    /\ http_post = NoPost
    /\ first = NoFirst
    /\ client = [pc |-> "start", call |-> [call_raised |-> FALSE, content |-> <<>>],
                 exit_code |-> 0, printed |-> "banner"]

(* ------------------------------ server -------------------------------- *)
\* server.py:52-77: the one registered tool and its input schema
SearchPlacesTool ==
    [type |-> "tool", name |-> "search_places", properties |-> {"query", "min_rating"},
     required |-> {"query"}, min_rating_default |-> DefaultMinRating]

\* server.py:44-77
list_tools ==
    /\ request' = [op |-> "list_tools", name |-> "", arguments |-> NoArguments]
    /\ result' = Returned(<< SearchPlacesTool >>)
    /\ http_post' = NoPost
    /\ UNCHANGED << env, api, MAPS_API_KEY, envReads, first, client >>

NeedsLoadAlways(key) == TRUE

\* server.py:119
NeedsLoad(key) == key = None

CredentialMissingOnlyEmpty(key) == key = ""

\* server.py:121
CredentialMissing(key) == Falsy(key)

\* server.py:101-203
handle_search_places(arguments) ==
    LET load == NeedsLoad(MAPS_API_KEY)
        key == IF load THEN env ELSE MAPS_API_KEY
        query == GetQuery(arguments)
        min_rating == GetMinRating(arguments)
    IN  /\ load => envReads < MaxEnvReads
        /\ MAPS_API_KEY' = key
        /\ envReads' = IF load THEN envReads + 1 ELSE envReads
        /\ IF load /\ CredentialMissing(key)
           THEN /\ result' = Returned(<< TextContent(json_dumps(
                                ErrorOutcome("MAPS_API_KEY_not_set", 0, ""))) >>)
                /\ http_post' = NoPost
           ELSE IF query = <<>>
           THEN /\ result' = Raised("ValueError", "query_not_given")
                /\ http_post' = NoPost
           ELSE /\ http_post' = Post(key, search_query(query))
                /\ result' = SearchResult(query, min_rating, api)

IsSearchToolAny(name) == TRUE

\* server.py:95
IsSearchTool(name) == name = "search_places"

\* server.py:80-98
call_tool(name, arguments) ==
    /\ request' = [op |-> "call_tool", name |-> name, arguments |-> arguments]
    /\ IF IsSearchTool(name)
       THEN /\ handle_search_places(arguments)
            /\ first' = IF first.seen THEN first
                        ELSE [seen |-> TRUE, arguments |-> arguments, result |-> result']
       ELSE /\ result' = Raised("ValueError", "unknown_tool")
            /\ http_post' = NoPost
            /\ UNCHANGED << MAPS_API_KEY, envReads, first >>
    /\ UNCHANGED << env, api, client >>

(* ------------------------------ client -------------------------------- *)
ImageContent == [type |-> "image", text |-> [valid |-> FALSE, type |-> "none", doc |-> 0]]

\* the texts a first content item can carry
ClientTexts ==
    { [valid |-> FALSE, type |-> "none", doc |-> 0],
      [valid |-> TRUE, type |-> "number", doc |-> 0],
      [valid |-> TRUE, type |-> "array", doc |-> 0],
      json_dumps(ErrorOutcome("search_error", 0, "ConnectError")),
      json_dumps(SuccessOutcome(<<"ramen">>, 40, <<>>)),
      json_dumps(SuccessOutcome(<<"ramen">>, 40, << [place_id |-> 1, rating |-> 40] >>)),
      json_dumps([query |-> <<"ramen">>, places |-> <<>>]) }

\* what session.call_tool gives the client: it raises, or a result with content
CallResult(call_raised, content) == [call_raised |-> call_raised, content |-> content]

ClientCallResults ==
    { CallResult(TRUE, <<>>), CallResult(FALSE, <<>>), CallResult(FALSE, << ImageContent >>) }
    \cup { CallResult(FALSE, << TextContent(t) >>) : t \in ClientTexts }

\* client.py:104-156: the exception the handling of the result raises, "" if none
ClientException(call) ==
    IF call.call_raised THEN "McpError"                              \* :93
    ELSE IF call.content = <<>> THEN ""                              \* :104
    ELSE LET item == call.content[1] IN
         IF item.type # "text" THEN "AttributeError"                 \* :106
         ELSE IF ~item.text.valid THEN "JSONDecodeError"             \* :109
         ELSE IF item.text.type = "number" THEN "TypeError"          \* :112
         ELSE IF item.text.type = "array" THEN "AttributeError"      \* :117
         ELSE IF "error" \in DOMAIN item.text.doc THEN ""            \* :112
         ELSE IF "count" \notin DOMAIN item.text.doc THEN "KeyError" \* :118
         ELSE ""

\* client.py:90-166: the call, the handling of its result, and the way out
client_main(call) ==
    /\ client.pc = "start"
    /\ client' =
        IF ClientException(call) # "" THEN Exit(call, 1, "troubleshooting")      \* :158-166
        ELSE IF call.content = <<>> THEN Exit(call, 0, "no_result_from_server")  \* :155-156
        ELSE LET data == call.content[1].text.doc IN
             IF "error" \in DOMAIN data THEN Exit(call, 0, "error_variant")      \* :112-114
             ELSE IF data.places = <<>> THEN Exit(call, 0, "no_matching_places") \* :123-125
             ELSE Exit(call, 0, "places")                                        \* :126-153
    /\ UNCHANGED serverVars

(* --------------------------- specification ---------------------------- *)
Next ==
    \/ list_tools
    \/ \E name \in ToolNames : \E arguments \in ArgumentsOf(name) : call_tool(name, arguments)
    \/ \E call \in ClientCallResults : client_main(call)

Spec == Init /\ [][Next]_vars

(* ------------------------- reading the state -------------------------- *)
IsSearchRequest == request.op = "call_tool" /\ request.name = "search_places"
IsUnknownToolRequest == request.op = "call_tool" /\ request.name # "search_places"

\* r is exactly one text content item, returned, holding a parseable document
IsOneText(r) ==
    /\ ~r.raised
    /\ Len(r.content) = 1
    /\ r.content[1].type = "text"
    /\ r.content[1].text.valid

Outcome(r) == r.content[1].text.doc
IsErrorVariant(r) == IsOneText(r) /\ DOMAIN Outcome(r) = {"error"}
IsSuccessVariant(r) ==
    IsOneText(r) /\ DOMAIN Outcome(r) = {"query", "min_rating", "count", "places"}
IsMissingCredentialError(r) ==
    IsErrorVariant(r) /\ Outcome(r).error.kind = "MAPS_API_KEY_not_set"

\* the rating a place counts with: a missing rating counts as 0
RatingOrZero(p) == IF p.rating = NoRating THEN 0 ELSE p.rating

(* ------------------------------- C1 ----------------------------------- *)
\* C1: a successful search_places outcome lists exactly the API's places whose
\* rating (missing: 0) is >= min_rating, in the API's order, and count is the
\* length of that list.
C1_FilteredInApiOrder ==
    (IsSearchRequest /\ IsSuccessVariant(result)) =>
        LET min == GetMinRating(request.arguments)
            kept == SelectSeq(api.places, LAMBDA p : RatingOrZero(p) >= min)
            out == Outcome(result)
        IN  /\ Len(out.places) = Len(kept)
            /\ \A i \in 1..Len(kept) :
                  /\ out.places[i].place_id = kept[i].id
                  /\ out.places[i].rating = RatingOrZero(kept[i])
            /\ out.count = Len(out.places)

\* a success whose API answer has a place exactly at min_rating (kept) after a
\* place below it (dropped)
C1_Witness ==
    /\ IsSearchRequest
    /\ IsSuccessVariant(result)
    /\ Len(api.places) = 2
    /\ RatingOrZero(api.places[1]) < GetMinRating(request.arguments)
    /\ RatingOrZero(api.places[2]) = GetMinRating(request.arguments)
    /\ Outcome(result).count = 1
    /\ Outcome(result).places[1].place_id = 2

(* ------------------------------- C2 ----------------------------------- *)
\* C2: a search_places invocation whose query is missing or empty is answered
\* with an error variant in a returned text content item, never by raising.
C2_EmptyQueryIsErrorVariant ==
    (IsSearchRequest /\ GetQuery(request.arguments) = <<>>) =>
        (~result.raised /\ IsErrorVariant(result))

(* ------------------------------- C3 ----------------------------------- *)
\* C3: with query absent or empty, in every credential state, the handler
\* reports a missing-argument error and sends nothing to the external API.
C3_EmptyQueryIsMissingArgument ==
    (IsSearchRequest /\ GetQuery(request.arguments) = <<>>) =>
        /\ \/ (result.raised /\ result.msg = "query_not_given")
           \/ (IsErrorVariant(result) /\ Outcome(result).error.kind = "query_not_given")
        /\ ~http_post.sent

(* ------------------------------- C4 ----------------------------------- *)
\* the answers the claim counts as a failure of the external call
ApiFailure(answer) ==
    \/ answer.fault # "none"
    \/ answer.status \notin 200..299
    \/ ~answer.json
    \/ answer.shape # "object"
    \/ answer.places_shape \notin {"absent", "list"}

\* C4: with a non-empty query and a loaded credential, every failure of the
\* external call gives exactly one text content item holding an error variant,
\* nothing raised, and for a non-2xx status the error carries the status code.
C4_ApiFailureIsErrorVariant ==
    (/\ IsSearchRequest
     /\ GetQuery(request.arguments) # <<>>
     /\ ~Falsy(MAPS_API_KEY)
     /\ ApiFailure(api)) =>
        /\ IsErrorVariant(result)
        /\ (api.fault = "none" /\ api.status \notin 200..299) =>
              Outcome(result).error.status = api.status

(* ------------------------------- C5 ----------------------------------- *)
\* C5: with the API key absent from the environment, list_tools still returns
\* the search_places descriptor, and a search_places invocation returns the
\* error variant naming the missing credential without calling the API.
C5_AbsentKeyListsAndReports ==
    (env = None) =>
        /\ (request.op = "list_tools") =>
              (~result.raised /\ Len(result.content) = 1
                /\ result.content[1].name = "search_places"
                /\ result.content[1].required = {"query"})
        /\ IsSearchRequest => (IsMissingCredentialError(result) /\ ~http_post.sent)

\* the first invocation of a server whose environment lacks the key
C5_Witness ==
    /\ env = None
    /\ IsSearchRequest
    /\ GetQuery(request.arguments) # <<>>
    /\ envReads = 1
    /\ first.seen /\ first.result = result
    /\ IsMissingCredentialError(result)

(* ------------------------------- C6 ----------------------------------- *)
\* C6: a search_places invocation with the arguments of the session's first
\* one, against an API that answers the same, gives the same outcome as the
\* first did.
C6_SameArgumentsSameOutcome ==
    (first.seen /\ IsSearchRequest /\ request.arguments = first.arguments) =>
        result = first.result

PresentationError(call) ==
    /\ ~call.call_raised
    /\ \/ call.content = <<>>
       \/ (call.content[1].type = "text" /\ ~call.content[1].text.valid)

\* C8: on every presentation error the client reports it and exits non-zero.
C8_PresentationErrorExitsNonZero ==
    (client.pc = "exited" /\ PresentationError(client.call)) =>
        (client.printed # "banner" /\ client.exit_code # 0)

(* ------------------------------- C9 ----------------------------------- *)
\* C9: a call of any tool other than search_places raises the unknown-tool
\* error, sends nothing to the API, leaves the credential slot and the count of
\* environment reads alone, and a search_places invocation right after it is
\* answered by the handler (a text content item, or its missing-query error).
C9_UnknownToolOnlyFails ==
    [][ /\ (IsUnknownToolRequest' /\ client' = client) =>
              /\ result' = Raised("ValueError", "unknown_tool")
              /\ ~http_post'.sent
              /\ UNCHANGED << MAPS_API_KEY, envReads, env, api, first >>
        /\ (IsUnknownToolRequest /\ IsSearchRequest' /\ client' = client) =>
              \/ IsOneText(result')
              \/ (result'.raised /\ result'.msg = "query_not_given")
      ]_vars

\* an unknown tool was called after the credential was loaded by a search
C9_Witness ==
    /\ IsUnknownToolRequest
    /\ result = Raised("ValueError", "unknown_tool")
    /\ MAPS_API_KEY = ApiKey
    /\ first.seen

(* ------------------------------- C10 ---------------------------------- *)
\* C10: while the environment has no usable credential (unset or empty), every
\* search_places invocation returns the missing-credential error and nothing
\* is ever posted to the external API with an empty or missing key.
C10_UnusableKeyNeverPosted ==
    /\ (Falsy(env) /\ IsSearchRequest) =>
          (IsMissingCredentialError(result) /\ ~http_post.sent)
    /\ http_post.sent => ~Falsy(http_post.key)

====
